---- MODULE Spec2Model ----
(***************************************************************************)
(* Model of the two Inventory implementations of the repository:           *)
(*   A = inventory_management.py                (id-keyed JSON object file) *)
(*   B = inventory_management_system/inventory.py     (JSON array file)     *)
(* A Python dict is a sequence of <key, object> entries (insertion order,  *)
(* unique keys); a Python object is a record holding its class and its     *)
(* __dict__; a JSON document is a record of fields.                        *)
(***************************************************************************)
EXTENDS Integers, Sequences, FiniteSets, TLC

VARIABLES impl, products, file, savedFrom, lastOp, result, ret

vars == <<impl, products, file, savedFrom, lastOp, result, ret>>

\* ---------------------------------------------------------------- bounds
\* restocking stops at MaxQty units; the clock stops on day MaxDay
MaxQty == 1
MaxDay == 2

\* ---------------------------------------------------------------- inputs
ProductIds == {"p1", "p2"}
Quantities == 0 .. (MaxQty + 1)
InitialQuantities == 0 .. MaxQty

\* "YYYY-MM-DD" strings; the i-th is the i-th day of the model's calendar
DateStrings == <<"2024-01-01", "2024-01-02", "2024-01-03", "2024-01-04">>
\* datetime values count half days: day i at 00:00 is 2*i, at 12:00 is 2*i+1;
\* the clock reads any instant from day 1 to noon of day MaxDay
Nows == 2 .. (2 * MaxDay + 1)

NamePhone == <<"P", "h", "o", "n", "e">>
NameMilk == <<"M", "i", "l", "k">>
NameShirt == <<"S", "h", "i", "r", "t">>

\* ------------------------------------------------------- argument values
\* a str is the tuple of its characters; a class object is known by its name
NoArg == [kind |-> "None", text |-> <<>>]
Str(t) == [kind |-> "str", text |-> t]
Class(n) == [kind |-> "class", text |-> n]

NameElectronics == <<"E", "l", "e", "c", "t", "r", "o", "n", "i", "c", "s">>
NameGrocery == <<"G", "r", "o", "c", "e", "r", "y">>
NameClothing == <<"C", "l", "o", "t", "h", "i", "n", "g">>
NameProduct == <<"P", "r", "o", "d", "u", "c", "t">>
\* type(p).__name__
ClassName(cls) ==
    IF cls = "Electronics" THEN NameElectronics
    ELSE IF cls = "Grocery" THEN NameGrocery
    ELSE NameClothing

\* the tags a caller hands to search_by_type: names, in either case and
\* unknown, and class objects, of a variant, of the base class and unrelated
TypeTags ==
    { Str(NameGrocery), Str(<<"g", "r", "o", "c", "e", "r", "y">>), Str(<<"T", "o", "y">>),
      Class(NameGrocery), Class(NameProduct), Class(<<"i", "n", "t">>) }

\* the names a caller searches for: in another case, one letter, no match, ""
NameQueries ==
    { Str(<<"m", "I", "L", "k">>), Str(<<"I">>), Str(<<"x">>), Str(<<>>) }

\* ------------------------------------------------------------- str.lower()
UpperCase == <<"A", "B", "C", "D", "E", "F", "G", "H", "I", "J", "K", "L", "M",
               "N", "O", "P", "Q", "R", "S", "T", "U", "V", "W", "X", "Y", "Z">>
LowerCase == <<"a", "b", "c", "d", "e", "f", "g", "h", "i", "j", "k", "l", "m",
               "n", "o", "p", "q", "r", "s", "t", "u", "v", "w", "x", "y", "z">>
lower_char(c) ==
    IF \E i \in 1 .. Len(UpperCase) : UpperCase[i] = c
    THEN LowerCase[CHOOSE i \in 1 .. Len(UpperCase) : UpperCase[i] = c]
    ELSE c
lower(t) == [i \in 1 .. Len(t) |-> lower_char(t[i])]

\* ------------------------------------------------------------ exceptions
Exc(t, m) == [type |-> t, msg |-> m]
NoExc == Exc("None", "")
Raised(e) == e.type # "None"

\* ---------------------------------------------------------- returned values
\* what a call hands back: None, a number or a list of product objects
RetNone == [kind |-> "None", num |-> 0, list |-> <<>>]
RetNum(n) == [kind |-> "number", num |-> n, list |-> <<>>]
RetList(l) == [kind |-> "list", num |-> 0, list |-> l]

\* ------------------------------------------------------ dict as a sequence
Keys(P) == {P[i].key : i \in 1 .. Len(P)}
HasKey(P, k) == k \in Keys(P)
IndexOf(P, k) == CHOOSE i \in 1 .. Len(P) : P[i].key = k
Get(P, k) == P[IndexOf(P, k)].obj
\* d[k] = v: an existing key keeps its position, a new key goes last
Put(P, k, v) ==
    IF HasKey(P, k)
    THEN [P EXCEPT ![IndexOf(P, k)] = [key |-> k, obj |-> v]]
    ELSE Append(P, [key |-> k, obj |-> v])
IsNotKeyIn(e, ks) == e.key \notin ks
\* del d[k] for every k in ks
DelAll(P, ks) == SelectSeq(P, LAMBDA e : IsNotKeyIn(e, ks))
Del(P, k) == DelAll(P, {k})

\* ------------------------------------------------ datetime.strptime/strftime
DateIndex(s) ==
    IF \E i \in 1 .. Len(DateStrings) : DateStrings[i] = s
    THEN CHOOSE i \in 1 .. Len(DateStrings) : DateStrings[i] = s
    ELSE 0
\* datetime.strptime(s, "%Y-%m-%d"): midnight of the day, ValueError otherwise
strptime(s) ==
    IF DateIndex(s) = 0
    THEN [exc |-> Exc("ValueError", "time data does not match format"), value |-> 0]
    ELSE [exc |-> NoExc, value |-> 2 * DateIndex(s)]
\* dt.strftime("%Y-%m-%d"): the calendar day, the time of day is dropped
strftime(dt) == DateStrings[dt \div 2]

\* ------------------------------------------------------------ constructors
\* Each returns [exc, obj]; obj is the object's class and __dict__.
A_Electronics(product_id, name, price, quantity_in_stock, warranty_years, brand) ==
    [exc |-> NoExc,
     obj |-> [cls |-> "Electronics", _product_id |-> product_id, _name |-> name,
              _price |-> price, _quantity_in_stock |-> quantity_in_stock,
              warranty_years |-> warranty_years, brand |-> brand]]

A_Grocery(product_id, name, price, quantity_in_stock, expiry_date) ==
    LET d == strptime(expiry_date) IN
    [exc |-> d.exc,
     obj |-> [cls |-> "Grocery", _product_id |-> product_id, _name |-> name,
              _price |-> price, _quantity_in_stock |-> quantity_in_stock,
              expiry_date |-> d.value]]

A_Clothing(product_id, name, price, quantity_in_stock, size, material) ==
    [exc |-> NoExc,
     obj |-> [cls |-> "Clothing", _product_id |-> product_id, _name |-> name,
              _price |-> price, _quantity_in_stock |-> quantity_in_stock,
              size |-> size, material |-> material]]

\* B's constructors take (.., quantity, brand, warranty_years) and build the
\* same objects.
B_Electronics(product_id, name, price, quantity, brand, warranty_years) ==
    [exc |-> NoExc,
     obj |-> [cls |-> "Electronics", _product_id |-> product_id, _name |-> name,
              _price |-> price, _quantity_in_stock |-> quantity,
              brand |-> brand, warranty_years |-> warranty_years]]

B_Grocery(product_id, name, price, quantity, expiry_date) ==
    LET d == strptime(expiry_date) IN
    [exc |-> d.exc,
     obj |-> [cls |-> "Grocery", _product_id |-> product_id, _name |-> name,
              _price |-> price, _quantity_in_stock |-> quantity,
              expiry_date |-> d.value]]

B_Clothing(product_id, name, price, quantity, size, material) ==
    [exc |-> NoExc,
     obj |-> [cls |-> "Clothing", _product_id |-> product_id, _name |-> name,
              _price |-> price, _quantity_in_stock |-> quantity,
              size |-> size, material |-> material]]

\* The products a caller (the menu's choice 1) constructs and hands to
\* add_product: each id can be given to two variants; one product is free.
NewProducts(i) ==
    UNION { { IF i = "A" THEN A_Electronics("p1", NamePhone, 3, q, 2, "Acme").obj
                         ELSE B_Electronics("p1", NamePhone, 3, q, "Acme", 2).obj,
              IF i = "A" THEN A_Grocery("p1", NameMilk, 1, q, DateStrings[1]).obj
                         ELSE B_Grocery("p1", NameMilk, 1, q, DateStrings[1]).obj,
              IF i = "A" THEN A_Clothing("p2", NameShirt, 2, q, "M", "Cotton").obj
                         ELSE B_Clothing("p2", NameShirt, 2, q, "M", "Cotton").obj }
            \cup { IF i = "A" THEN A_Grocery("p2", NameMilk, 0, q, DateStrings[2]).obj
                               ELSE B_Grocery("p2", NameMilk, 0, q, DateStrings[2]).obj }
          : q \in InitialQuantities }

\* ------------------------------------------------------- Product methods
\* mutant: the amount replaces the stock
restock_assigns(p, amount) == [p EXCEPT !._quantity_in_stock = amount]

restock(p, amount) ==
    [p EXCEPT !._quantity_in_stock = p._quantity_in_stock + amount]

\* mutant: no stock check
A_sell_unchecked(p, quantity) ==
    [exc |-> NoExc,
     obj |-> [p EXCEPT !._quantity_in_stock = p._quantity_in_stock - quantity]]

\* returns [exc, obj]
A_sell(p, quantity) ==
    IF quantity > p._quantity_in_stock
    THEN [exc |-> Exc("InsufficientStockException", "Not enough stock to sell."),
          obj |-> p]
    ELSE [exc |-> NoExc,
          obj |-> [p EXCEPT !._quantity_in_stock = p._quantity_in_stock - quantity]]

\* mutant: the stock is taken before the check
B_sell_takes_first(p, quantity) ==
    LET q == [p EXCEPT !._quantity_in_stock = p._quantity_in_stock - quantity] IN
    IF quantity > p._quantity_in_stock
    THEN [exc |-> Exc("ValueError", "Only N items available."), obj |-> q]
    ELSE [exc |-> NoExc, obj |-> q]

\* the message's item count is left out of msg
B_sell(p, quantity) ==
    IF quantity > p._quantity_in_stock
    THEN [exc |-> Exc("ValueError", "Only N items available."), obj |-> p]
    ELSE [exc |-> NoExc,
          obj |-> [p EXCEPT !._quantity_in_stock = p._quantity_in_stock - quantity]]

\* mutant: price plus quantity
get_total_value_adds(p) == p._price + p._quantity_in_stock

get_total_value(p) == p._price * p._quantity_in_stock

\* mutant: expired from the expiry instant on
is_expired_inclusive(p, now) == now >= p.expiry_date

is_expired(p, now) == now > p.expiry_date

\* ----------------------------------------------------- Inventory operations
\* Each returns [products, exc, ret]: the collection after the call, what it
\* raised and what it returned. A method without a return statement returns None.
Done(P) == [products |-> P, exc |-> NoExc, ret |-> RetNone]
Fail(P, e) == [products |-> P, exc |-> e, ret |-> RetNone]
Return(P, v) == [products |-> P, exc |-> NoExc, ret |-> v]

A_add_product(P, product) ==
    IF HasKey(P, product._product_id)
    THEN Fail(P, Exc("DuplicateProductIDException", "Product with this ID already exists."))
    ELSE Done(Put(P, product._product_id, product))

\* mutant: no duplicate check
B_add_product_overwrites(P, product) == Done(Put(P, product._product_id, product))

B_add_product(P, product) ==
    IF HasKey(P, product._product_id)
    THEN Fail(P, Exc("ValueError", "Duplicate product ID."))
    ELSE Done(Put(P, product._product_id, product))

\* mutant: pop(product_id) without the default
A_remove_product_no_default(P, product_id) ==
    IF HasKey(P, product_id) THEN Done(Del(P, product_id))
    ELSE Fail(P, Exc("KeyError", "missing key"))

A_remove_product(P, product_id) == Done(Del(P, product_id))

\* mutant: the entry is kept with no stock instead of being deleted
B_remove_product_keeps_key(P, product_id) ==
    IF HasKey(P, product_id)
    THEN Done(Put(P, product_id, [Get(P, product_id) EXCEPT !._quantity_in_stock = 0]))
    ELSE Done(P)

B_remove_product(P, product_id) ==
    IF HasKey(P, product_id) THEN Done(Del(P, product_id)) ELSE Done(P)

A_sell_product(P, product_id, quantity) ==
    IF HasKey(P, product_id)
    THEN LET s == A_sell(Get(P, product_id), quantity) IN
         Fail(Put(P, product_id, s.obj), s.exc)
    ELSE Done(P)

B_sell_product(P, product_id, quantity) ==
    IF ~HasKey(P, product_id)
    THEN Fail(P, Exc("ValueError", "Product not found."))
    ELSE LET s == B_sell(Get(P, product_id), quantity) IN
         Fail(Put(P, product_id, s.obj), s.exc)

A_restock_product(P, product_id, quantity) ==
    IF HasKey(P, product_id)
    THEN Done(Put(P, product_id, restock(Get(P, product_id), quantity)))
    ELSE Done(P)

\* mutant: every stored product is restocked
B_restock_product_all(P, product_id, quantity) ==
    IF ~HasKey(P, product_id)
    THEN Fail(P, Exc("ValueError", "Product not found."))
    ELSE Done([i \in 1 .. Len(P) |->
                 [key |-> P[i].key, obj |-> restock(P[i].obj, quantity)]])

B_restock_product(P, product_id, quantity) ==
    IF ~HasKey(P, product_id)
    THEN Fail(P, Exc("ValueError", "Product not found."))
    ELSE Done(Put(P, product_id, restock(Get(P, product_id), quantity)))

IsExpiredEntry(e, now) == e.obj.cls = "Grocery" /\ is_expired(e.obj, now)
\* the local expired_ids, as a set of keys
expired_ids(P, now) == {P[i].key : i \in {j \in 1 .. Len(P) : IsExpiredEntry(P[j], now)}}

A_remove_expired_products(P, now) == Done(DelAll(P, expired_ids(P, now)))

B_remove_expired_products(P, now) == Done(DelAll(P, expired_ids(P, now)))

\* list(self._products.values())
Values(P) == [i \in 1 .. Len(P) |-> P[i].obj]

\* needle in hay, for two str
Contains(hay, needle) ==
    \E i \in 0 .. (Len(hay) - Len(needle)) : SubSeq(hay, i + 1, i + Len(needle)) = needle
NameHas(e, t) == Contains(lower(e.obj._name), t)

\* mutant: the stored name is compared as it is
A_search_by_name_as_stored(P, name) ==
    Return(P, RetList(Values(SelectSeq(P,
        LAMBDA e : Contains(e.obj._name, lower(name.text))))))

A_search_by_name(P, name) ==
    Return(P, RetList(Values(SelectSeq(P, LAMBDA e : NameHas(e, lower(name.text))))))

B_search_by_name(P, name) ==
    Return(P, RetList(Values(SelectSeq(P, LAMBDA e : NameHas(e, lower(name.text))))))

\* the classes isinstance(p, T) accepts for an object of class cls
Mro(cls) == {ClassName(cls), NameProduct, <<"A", "B", "C">>, <<"o", "b", "j", "e", "c", "t">>}
IsInstance(e, T) == T.text \in Mro(e.obj.cls)

\* isinstance is evaluated for each stored product; it raises TypeError when
\* its second argument is not a class
A_search_by_type(P, product_type) ==
    IF Len(P) = 0 THEN Return(P, RetList(<<>>))
    ELSE IF product_type.kind # "class"
    THEN Fail(P, Exc("TypeError", "isinstance() arg 2 must be a type"))
    ELSE Return(P, RetList(Values(SelectSeq(P, LAMBDA e : IsInstance(e, product_type)))))

HasClassName(e, n) == lower(ClassName(e.obj.cls)) = n

\* product_type.lower() is evaluated for each stored product; only a str has it
B_search_by_type(P, product_type) ==
    IF Len(P) = 0 THEN Return(P, RetList(<<>>))
    ELSE IF product_type.kind # "str"
    THEN Fail(P, Exc("AttributeError", "no attribute 'lower'"))
    ELSE Return(P, RetList(Values(SelectSeq(P,
             LAMBDA e : HasClassName(e, lower(product_type.text))))))

A_list_all_products(P) == Return(P, RetList(Values(P)))

B_list_all_products(P) == Return(P, RetList(Values(P)))

\* sum(iterable): starts at 0 and adds the items from left to right
RECURSIVE sum(_)
sum(xs) ==
    IF Len(xs) = 0 THEN 0 ELSE sum(SubSeq(xs, 1, Len(xs) - 1)) + xs[Len(xs)]

A_total_inventory_value(P) ==
    Return(P, RetNum(sum([i \in 1 .. Len(P) |-> get_total_value(P[i].obj)])))

B_total_inventory_value(P) ==
    Return(P, RetNum(sum([i \in 1 .. Len(P) |-> get_total_value(P[i].obj)])))

\* ------------------------------------------------------------ persistence
\* A file is [kind, data]: kind "missing" (no such file), "object" (a JSON
\* object, data a sequence of <key, rec>) or "array" (a JSON array, data a
\* sequence of records).
NoFile == [kind |-> "missing", data |-> <<>>]
Has(d, k) == k \in DOMAIN d
HasAll(d, ks) == ks \subseteq DOMAIN d

A_serialize_product(product) ==
    LET base == [type |-> product.cls, product_id |-> product._product_id,
                 name |-> product._name, price |-> product._price,
                 quantity_in_stock |-> product._quantity_in_stock]
    IN  IF product.cls = "Electronics"
        THEN [k \in DOMAIN base \cup {"warranty_years", "brand"} |->
                IF k \in DOMAIN base THEN base[k] ELSE product[k]]
        ELSE IF product.cls = "Grocery"
        THEN [k \in DOMAIN base \cup {"expiry_date"} |->
                IF k \in DOMAIN base THEN base[k] ELSE strftime(product.expiry_date)]
        ELSE IF product.cls = "Clothing"
        THEN [k \in DOMAIN base \cup {"size", "material"} |->
                IF k \in DOMAIN base THEN base[k] ELSE product[k]]
        ELSE base

\* open(filename, 'w') of a path that cannot be written
OSError == Exc("OSError", "cannot open file")

\* Returns [products, file, exc]. serialize_product builds new dicts, the
\* products are only read; a failed open leaves the file as it was.
A_save_to_file(P, f, writable) ==
    IF ~writable
    THEN [products |-> P, file |-> f, exc |-> OSError]
    ELSE [products |-> P,
          file |-> [kind |-> "object",
                    data |-> [i \in 1 .. Len(P) |->
                                [key |-> P[i].key,
                                 rec |-> A_serialize_product(P[i].obj)]]],
          exc |-> NoExc]

KeyError == Exc("KeyError", "missing key")
NoObj == [cls |-> "None"]

\* returns [exc, obj]; a missing key raises KeyError where it is read
A_deserialize_product(data) ==
    IF ~Has(data, "type") THEN [exc |-> KeyError, obj |-> NoObj]
    ELSE IF data.type = "Electronics"
    THEN IF HasAll(data, {"product_id", "name", "price", "quantity_in_stock",
                          "warranty_years", "brand"})
         THEN A_Electronics(data.product_id, data.name, data.price,
                            data.quantity_in_stock, data.warranty_years, data.brand)
         ELSE [exc |-> KeyError, obj |-> NoObj]
    ELSE IF data.type = "Grocery"
    THEN IF HasAll(data, {"product_id", "name", "price", "quantity_in_stock",
                          "expiry_date"})
         THEN A_Grocery(data.product_id, data.name, data.price,
                        data.quantity_in_stock, data.expiry_date)
         ELSE [exc |-> KeyError, obj |-> NoObj]
    ELSE IF data.type = "Clothing"
    THEN IF HasAll(data, {"product_id", "name", "price", "quantity_in_stock",
                          "size", "material"})
         THEN A_Clothing(data.product_id, data.name, data.price,
                         data.quantity_in_stock, data.size, data.material)
         ELSE [exc |-> KeyError, obj |-> NoObj]
    ELSE [exc |-> Exc("InvalidProductDataException", "Unknown product type."),
          obj |-> NoObj]

A_LoadError == Exc("InvalidProductDataException", "Error loading file")

RECURSIVE PutAll(_, _, _)
PutAll(P, Q, i) ==
    IF i > Len(Q) THEN P ELSE PutAll(Put(P, Q[i].key, Q[i].obj), Q, i + 1)

\* mutant: the loaded entries are merged into the collection (dict.update)
A_load_merges(P, f) ==
    IF f.kind # "object"
    THEN Fail(P, A_LoadError)
    ELSE LET d == [i \in 1 .. Len(f.data) |-> A_deserialize_product(f.data[i].rec)] IN
         IF \E i \in 1 .. Len(d) : Raised(d[i].exc)
         THEN Fail(P, A_LoadError)
         ELSE Done(PutAll(P, [i \in 1 .. Len(d) |->
                                [key |-> f.data[i].key, obj |-> d[i].obj]], 1))

\* The dict comprehension is built first and assigned only when no
\* deserialize_product call raised.
A_load_from_file(P, f) ==
    IF f.kind # "object"
    THEN Fail(P, A_LoadError)
    ELSE LET d == [i \in 1 .. Len(f.data) |-> A_deserialize_product(f.data[i].rec)] IN
         IF \E i \in 1 .. Len(d) : Raised(d[i].exc)
         THEN Fail(P, A_LoadError)
         ELSE Done([i \in 1 .. Len(d) |-> [key |-> f.data[i].key, obj |-> d[i].obj]])

\* p.__dict__.copy() plus "type"; a Grocery's expiry_date is written as a string
B_p_data(p) ==
    [k \in (DOMAIN p \ {"cls"}) \cup {"type"} |->
        IF k = "type" THEN p.cls
        ELSE IF k = "expiry_date" /\ p.cls = "Grocery" THEN strftime(p.expiry_date)
        ELSE p[k]]

\* mutant: p_data = p.__dict__ without copy(), so "type" lands in the object
B_save_to_file_aliases(P, f, writable) ==
    LET data == [i \in 1 .. Len(P) |-> B_p_data(P[i].obj)]
        Q == [i \in 1 .. Len(P) |->
                [key |-> P[i].key,
                 obj |-> [k \in DOMAIN P[i].obj \cup {"type"} |->
                            IF k = "type" THEN P[i].obj.cls ELSE P[i].obj[k]]]]
    IN  IF ~writable
        THEN [products |-> Q, file |-> f, exc |-> OSError]
        ELSE [products |-> Q, file |-> [kind |-> "array", data |-> data], exc |-> NoExc]

\* Returns [products, file, exc]. data is built from copies of each __dict__
\* before the file is opened; a failed open leaves the file as it was.
B_save_to_file(P, f, writable) ==
    LET data == [i \in 1 .. Len(P) |-> B_p_data(P[i].obj)] IN
    IF ~writable
    THEN [products |-> P, file |-> f, exc |-> OSError]
    ELSE [products |-> P, file |-> [kind |-> "array", data |-> data], exc |-> NoExc]

TypeError == Exc("TypeError", "unexpected or missing keyword argument")
Without(d, k) == [x \in DOMAIN d \ {k} |-> d[x]]

\* item.pop("type") and Class(**item): the keywords must be exactly the
\* constructor's parameter names. Returns [exc, obj].
B_load_item(item) ==
    IF ~Has(item, "type") THEN [exc |-> KeyError, obj |-> NoObj]
    ELSE LET kw == Without(item, "type") IN
         IF item.type = "Electronics"
         THEN IF DOMAIN kw = {"product_id", "name", "price", "quantity", "brand",
                              "warranty_years"}
              THEN B_Electronics(kw.product_id, kw.name, kw.price, kw.quantity,
                                 kw.brand, kw.warranty_years)
              ELSE [exc |-> TypeError, obj |-> NoObj]
         ELSE IF item.type = "Grocery"
         THEN IF DOMAIN kw = {"product_id", "name", "price", "quantity", "expiry_date"}
              THEN B_Grocery(kw.product_id, kw.name, kw.price, kw.quantity,
                             kw.expiry_date)
              ELSE [exc |-> TypeError, obj |-> NoObj]
         ELSE IF item.type = "Clothing"
         THEN IF DOMAIN kw = {"product_id", "name", "price", "quantity", "size",
                              "material"}
              THEN B_Clothing(kw.product_id, kw.name, kw.price, kw.quantity,
                              kw.size, kw.material)
              ELSE [exc |-> TypeError, obj |-> NoObj]
         ELSE [exc |-> Exc("ValueError", "Unknown product type"), obj |-> NoObj]

B_LoadError == Exc("ValueError", "Failed to load inventory data.")

\* the for loop from item i on, over the collection built so far
RECURSIVE B_load_loop(_, _, _)
B_load_loop(P, data, i) ==
    IF i > Len(data) THEN Done(P)
    ELSE LET r == B_load_item(data[i]) IN
         IF Raised(r.exc) THEN Fail(P, B_LoadError)
         ELSE B_load_loop(Put(P, r.obj._product_id, r.obj), data, i + 1)

\* self._products = {} comes before the loop. Iterating a JSON object yields
\* its keys, strings, and item.pop raises on the first one.
B_load_from_file(P, f) ==
    IF f.kind = "missing" THEN Fail(P, B_LoadError)
    ELSE IF f.kind = "object"
    THEN IF Len(f.data) = 0 THEN Done(<<>>) ELSE Fail(<<>>, B_LoadError)
    ELSE B_load_loop(<<>>, f.data, 1)

\* ------------------------------------------------ dispatch on the program run
add_product(i, P, product) ==
    IF i = "A" THEN A_add_product(P, product) ELSE B_add_product(P, product)
remove_product(i, P, product_id) ==
    IF i = "A" THEN A_remove_product(P, product_id) ELSE B_remove_product(P, product_id)
sell_product(i, P, product_id, quantity) ==
    IF i = "A" THEN A_sell_product(P, product_id, quantity)
    ELSE B_sell_product(P, product_id, quantity)
restock_product(i, P, product_id, quantity) ==
    IF i = "A" THEN A_restock_product(P, product_id, quantity)
    ELSE B_restock_product(P, product_id, quantity)
remove_expired_products(i, P, now) ==
    IF i = "A" THEN A_remove_expired_products(P, now)
    ELSE B_remove_expired_products(P, now)
search_by_name(i, P, name) ==
    IF i = "A" THEN A_search_by_name(P, name) ELSE B_search_by_name(P, name)
list_all_products(i, P) ==
    IF i = "A" THEN A_list_all_products(P) ELSE B_list_all_products(P)
search_by_type(i, P, product_type) ==
    IF i = "A" THEN A_search_by_type(P, product_type)
    ELSE B_search_by_type(P, product_type)
total_inventory_value(i, P) ==
    IF i = "A" THEN A_total_inventory_value(P) ELSE B_total_inventory_value(P)
save_to_file(i, P, f, writable) ==
    IF i = "A" THEN A_save_to_file(P, f, writable) ELSE B_save_to_file(P, f, writable)
load_from_file(i, P, f) ==
    IF i = "A" THEN A_load_from_file(P, f) ELSE B_load_from_file(P, f)

\* ------------------------------------------- files written by other programs
SampleE == A_Electronics("p1", NamePhone, 3, 1, 2, "Acme").obj
SampleG1 == A_Grocery("p1", NameMilk, 1, 1, DateStrings[1]).obj
SampleC == A_Clothing("p2", NameShirt, 2, 1, "M", "Cotton").obj
SampleG2 == A_Grocery("p2", NameMilk, 0, 1, DateStrings[2]).obj
\* a record in the shape B's load accepts: the constructors' parameter names
Kw(p) ==
    LET r == A_serialize_product(p) IN
    [k \in (DOMAIN r \ {"quantity_in_stock"}) \cup {"quantity"} |->
        IF k = "quantity" THEN r.quantity_in_stock ELSE r[k]]
Entry(k, r) == [key |-> k, rec |-> r]
Obj(d) == [kind |-> "object", data |-> d]
Arr(d) == [kind |-> "array", data |-> d]

A_ExternalFiles ==
    { \* well formed, with a stock below zero
      Obj(<<Entry("p1", [A_serialize_product(SampleE) EXCEPT !.quantity_in_stock = -1])>>),
      \* a key that is not its record's product_id, which two records share
      Obj(<<Entry("p1", A_serialize_product(SampleC)),
            Entry("p2", A_serialize_product(SampleG2))>>),
      \* an unknown type after a valid record
      Obj(<<Entry("p1", A_serialize_product(SampleE)),
            Entry("p2", [A_serialize_product(SampleC) EXCEPT !.type = "Toy"])>>),
      \* a record without a field of its variant, after a valid record
      Obj(<<Entry("p2", A_serialize_product(SampleC)),
            Entry("p1", Without(A_serialize_product(SampleE), "brand"))>>),
      \* a date in another format
      Obj(<<Entry("p2", [A_serialize_product(SampleG2)
                           EXCEPT !.expiry_date = "01/02/2024"])>>),
      \* a JSON array where an object is expected
      Arr(<<>>) }

B_ExternalFiles ==
    { Arr(<<[Kw(SampleE) EXCEPT !.quantity = -1]>>),
      \* two records with one product_id
      Arr(<<Kw(SampleG2), Kw(SampleC)>>),
      Arr(<<Kw(SampleE), [Kw(SampleC) EXCEPT !.type = "Toy"]>>),
      Arr(<<Kw(SampleC), Without(Kw(SampleE), "brand")>>),
      Arr(<<[Kw(SampleG2) EXCEPT !.expiry_date = "01/02/2024"]>>),
      \* a JSON object where an array is expected
      Obj(<<Entry("p1", Kw(SampleE))>>) }

ExternalFiles(i) == IF i = "A" THEN A_ExternalFiles ELSE B_ExternalFiles

\* ------------------------------------------------------------ state machine
\* the last call: its name and arguments, and the keys stored when it was made
Op(n, id, q, t) ==
    [name |-> n, pid |-> id, qty |-> q, now |-> t, had |-> Keys(products),
     arg |-> NoArg]
\* a call with one str or class argument
QueryOp(n, a) == [Op(n, "", 0, 0) EXCEPT !.arg = a]

\* ids a caller may name, stored or not
CallIds == Keys(products) \cup ProductIds

Init ==
    /\ impl \in {"A", "B"}
    /\ products = <<>>
    /\ file = NoFile
    /\ savedFrom = <<>>
    /\ lastOp = Op("__init__", "", 0, 0)
    /\ result = NoExc
    /\ ret = RetNone

\* an operation on the collection alone
Core(r, op) ==
    /\ products' = r.products
    /\ result' = r.exc
    /\ ret' = r.ret
    /\ lastOp' = op
    /\ UNCHANGED <<impl, file, savedFrom>>

\* inventory = Inventory()
NewInventory ==
    /\ products' = <<>>
    /\ result' = NoExc
    /\ ret' = RetNone
    /\ lastOp' = Op("__init__", "", 0, 0)
    /\ UNCHANGED <<impl, file, savedFrom>>

AddProduct ==
    \E np \in NewProducts(impl) :
        Core(add_product(impl, products, np),
             Op("add_product", np._product_id, np._quantity_in_stock, 0))

RemoveProduct ==
    \E id \in CallIds :
        Core(remove_product(impl, products, id), Op("remove_product", id, 0, 0))

SellProduct ==
    \E id \in CallIds, q \in Quantities :
        Core(sell_product(impl, products, id, q), Op("sell_product", id, q, 0))

\* stock has no upper limit in the code; the model stops restocking at MaxQty
RestockProduct ==
    \E id \in CallIds, q \in Quantities :
        /\ HasKey(products, id) => Get(products, id)._quantity_in_stock + q <= MaxQty
        /\ Core(restock_product(impl, products, id, q), Op("restock_product", id, q, 0))

\* datetime.now() is whatever the clock says at the call
RemoveExpiredProducts ==
    \E now \in Nows :
        Core(remove_expired_products(impl, products, now),
             Op("remove_expired_products", "", 0, now))

\* the path may or may not be writable at the call
SaveToFile ==
    \E writable \in BOOLEAN :
        LET r == save_to_file(impl, products, file, writable) IN
        /\ products' = r.products
        /\ file' = r.file
        /\ savedFrom' = IF Raised(r.exc) THEN savedFrom ELSE products
        /\ result' = r.exc
        /\ ret' = RetNone
        /\ lastOp' = Op("save_to_file", "", 0, 0)
        /\ UNCHANGED impl

LoadFromFile ==
    LET r == load_from_file(impl, products, file) IN
    /\ products' = r.products
    /\ result' = r.exc
    /\ ret' = r.ret
    /\ lastOp' = Op("load_from_file", "", 0, 0)
    /\ UNCHANGED <<impl, file, savedFrom>>

\* the file is replaced from outside the program
ExternalWrite ==
    \E f \in ExternalFiles(impl) :
        /\ file' = f
        /\ savedFrom' = <<>>
        /\ UNCHANGED <<impl, products, lastOp, result, ret>>

SearchByName ==
    \E name \in NameQueries :
        Core(search_by_name(impl, products, name), QueryOp("search_by_name", name))

ListAllProducts ==
    Core(list_all_products(impl, products), Op("list_all_products", "", 0, 0))

SearchByType ==
    \E tag \in TypeTags :
        Core(search_by_type(impl, products, tag), QueryOp("search_by_type", tag))

\* the menu's "Total Value"
TotalInventoryValue ==
    Core(total_inventory_value(impl, products), Op("total_inventory_value", "", 0, 0))

NextCore ==
    \/ NewInventory
    \/ AddProduct
    \/ RemoveProduct
    \/ SellProduct
    \/ RestockProduct
    \/ RemoveExpiredProducts

NextFile ==
    \/ NextCore
    \/ SaveToFile
    \/ LoadFromFile

Next ==
    \/ NextFile
    \/ ExternalWrite

\* the operations that only read the collection
NextQuery ==
    \/ NextCore
    \/ SearchByName
    \/ SearchByType
    \/ ListAllProducts
    \/ TotalInventoryValue

\* the collection's operations alone, no file
SpecCore == Init /\ [][NextCore]_vars

\* the collection's operations and its queries, no file
SpecQuery == Init /\ [][NextQuery]_vars

\* the program and the file it writes itself
SpecFile == Init /\ [][NextFile]_vars

\* the program and a file that other programs write too
Spec == Init /\ [][Next]_vars

\* ================================================================== claims
IsInsufficientStock(e) ==
    \/ e.type = "InsufficientStockException"
    \/ e.type = "ValueError" /\ e.msg = "Only N items available."
IsDuplicateProductID(e) ==
    \/ e.type = "DuplicateProductIDException"
    \/ e.type = "ValueError" /\ e.msg = "Duplicate product ID."
IsProductNotFound(e) == e.type = "ValueError" /\ e.msg = "Product not found."
Stock(P, k) == Get(P, k)._quantity_in_stock
Entries(P) == {P[i] : i \in 1 .. Len(P)}

\* C1: no two products held in the collection have the same product_id.
C1_UniqueProductIds ==
    \A i, j \in 1 .. Len(products) :
        i # j => products[i].obj._product_id # products[j].obj._product_id

\* C2: with non-negative initial quantities and quantity arguments, every
\* product's quantity_in_stock is >= 0 after any sequence of add_product,
\* remove_product, sell_product, restock_product and remove_expired_products.
C2_StockNeverNegative ==
    \A e \in Entries(products) : e.obj._quantity_in_stock >= 0

\* C2 witness: a sale has taken a product's whole stock.
C2_SoldOut ==
    /\ lastOp.name = "sell_product"
    /\ ~Raised(result)
    /\ lastOp.qty > 0
    /\ HasKey(products, lastOp.pid)
    /\ Stock(products, lastOp.pid) = 0

\* C3: sell(quantity) and sell_product(id, quantity) with quantity above the
\* stock (quantity_in_stock + 1 in particular) fail with the insufficient-stock
\* error and leave the product and the rest of the Inventory as they were.
C3_OversellFailsUnchanged ==
    \A id \in Keys(products) : \A q \in Quantities \cup {Stock(products, id) + 1} :
        q > Stock(products, id) =>
            LET p == Get(products, id)
                s == IF impl = "A" THEN A_sell(p, q) ELSE B_sell(p, q)
                r == sell_product(impl, products, id, q)
            IN  /\ IsInsufficientStock(s.exc)
                /\ s.obj = p
                /\ IsInsufficientStock(r.exc)
                /\ r.products = products

\* C3 witness: a sale of one more than the stock was refused.
C3_OversoldByOne ==
    /\ lastOp.name = "sell_product"
    /\ IsInsufficientStock(result)
    /\ HasKey(products, lastOp.pid)
    /\ lastOp.qty = Stock(products, lastOp.pid) + 1

\* C4: add_product(p) with p's product_id already a key fails with the
\* duplicate-id error and leaves the collection unchanged; with the id absent
\* it inserts exactly that record and changes nothing else.
C4_AddProduct ==
    \A np \in NewProducts(impl) :
        LET r == add_product(impl, products, np)
            id == np._product_id
        IN  IF HasKey(products, id)
            THEN IsDuplicateProductID(r.exc) /\ r.products = products
            ELSE /\ ~Raised(r.exc)
                 /\ Len(r.products) = Len(products) + 1
                 /\ Keys(r.products) = Keys(products) \cup {id}
                 /\ Get(r.products, id) = np
                 /\ \A k \in Keys(products) : Get(r.products, k) = Get(products, k)

\* C4 witness: an add was refused for a product that differs from the stored one.
C4_DuplicateRejected ==
    /\ lastOp.name = "add_product"
    /\ IsDuplicateProductID(result)
    /\ HasKey(products, lastOp.pid)
    /\ Stock(products, lastOp.pid) # lastOp.qty

\* C5: sell_product and restock_product with a product_id that is not in the
\* Inventory fail with a product-not-found error and leave the collection
\* unchanged, in both implementations; with the id present they touch that
\* product only.
C5_MissingIdFails ==
    /\ (lastOp.name \in {"sell_product", "restock_product"} /\ lastOp.pid \notin lastOp.had)
          => IsProductNotFound(result)
    /\ \A id \in CallIds : \A q \in Quantities :
          LET s == sell_product(impl, products, id, q)
              r == restock_product(impl, products, id, q)
          IN  IF ~HasKey(products, id)
              THEN s.products = products /\ r.products = products
              ELSE /\ Keys(s.products) = Keys(products)
                   /\ Keys(r.products) = Keys(products)
                   /\ \A k \in Keys(products) \ {id} :
                         /\ Get(s.products, k) = Get(products, k)
                         /\ Get(r.products, k) = Get(products, k)

\* C6: when load_from_file fails, the collection after the call is the
\* collection before it, in both implementations.
C6_LoadAtomic ==
    [][(lastOp'.name = "load_from_file" /\ Raised(result')) => products' = products]_vars

\* calendar dates, not instants
ByDay(p) == IF p.cls = "Grocery" THEN [p EXCEPT !.expiry_date = p.expiry_date \div 2] ELSE p
SameByDay(P, Q) ==
    /\ Len(P) = Len(Q)
    /\ Keys(P) = Keys(Q)
    /\ \A k \in Keys(P) : ByDay(Get(P, k)) = ByDay(Get(Q, k))

\* C7: save_to_file, then load_from_file of that file into a fresh Inventory of
\* the same implementation, succeeds and yields the same product_ids with the
\* same variant and field values.
C7_RoundTrip ==
    [][(lastOp'.name = "load_from_file" /\ products = <<>> /\ file.kind # "missing")
        => (~Raised(result') /\ SameByDay(products', savedFrom))]_vars

\* C8: remove_expired_products at time now removes exactly the Grocery products
\* with expiry_date < now; every other product stays, with all fields unchanged.
C8_RemovesExactlyExpired ==
    \A now \in Nows :
        LET r == remove_expired_products(impl, products, now) IN
        /\ ~Raised(r.exc)
        /\ Keys(r.products) \subseteq Keys(products)
        /\ \A e \in Entries(products) :
              IF e.obj.cls = "Grocery" /\ e.obj.expiry_date < now
              THEN ~HasKey(r.products, e.key)
              ELSE HasKey(r.products, e.key) /\ Get(r.products, e.key) = e.obj

\* C8 witness: a pruning removed a product and kept a Grocery product that
\* expires at the very instant of the call.
C8_PrunedAtTheInstant ==
    /\ lastOp.name = "remove_expired_products"
    /\ lastOp.had # Keys(products)
    /\ \E e \in Entries(products) :
          e.obj.cls = "Grocery" /\ e.obj.expiry_date = lastOp.now

\* what a record of the source says about a product
FileRecs(f) == IF f.kind = "object" THEN [i \in 1 .. Len(f.data) |-> f.data[i].rec] ELSE f.data
RecQuantity(rec) == IF Has(rec, "quantity_in_stock") THEN rec.quantity_in_stock ELSE rec.quantity
\* the id a record is stored under: its key in A's file, its product_id in B's
RecKey(f, i) == IF f.kind = "object" THEN f.data[i].key ELSE f.data[i].product_id
Describes(rec, p) ==
    /\ rec.type = p.cls
    /\ rec.product_id = p._product_id
    /\ rec.name = p._name
    /\ rec.price = p._price
    /\ RecQuantity(rec) = p._quantity_in_stock
    /\ p.cls = "Electronics" => rec.brand = p.brand /\ rec.warranty_years = p.warranty_years
    /\ p.cls = "Grocery" => rec.expiry_date = DateStrings[p.expiry_date \div 2]
    /\ p.cls = "Clothing" => rec.size = p.size /\ rec.material = p.material
\* the last record stored under the id of record i
LastFor(f, i) ==
    CHOOSE j \in 1 .. Len(f.data) :
        /\ RecKey(f, j) = RecKey(f, i)
        /\ \A k \in 1 .. Len(f.data) : RecKey(f, k) = RecKey(f, i) => k <= j

C10_SellThenRestock ==
    \A id \in Keys(products) : \A q \in 0 .. Stock(products, id) :
        LET s == sell_product(impl, products, id, q)
            r == restock_product(impl, s.products, id, q)
        IN  /\ ~Raised(s.exc)
            /\ Stock(s.products, id) = Stock(products, id) - q
            /\ ~Raised(r.exc)
            /\ r.products = products

\* C10 witness: a restock of a positive amount succeeded in an Inventory that
\* holds another product too.
C10_Restocked ==
    /\ lastOp.name = "restock_product"
    /\ ~Raised(result)
    /\ lastOp.qty > 0
    /\ HasKey(products, lastOp.pid)
    /\ Len(products) > 1

\* the sum of price * quantity_in_stock over the entries at the positions S
RECURSIVE ValueOf(_, _)
ValueOf(P, S) ==
    IF S = {} THEN 0
    ELSE LET i == CHOOSE j \in S : TRUE IN
         P[i].obj._price * P[i].obj._quantity_in_stock + ValueOf(P, S \ {i})

\* C11: total_inventory_value() returns the sum over the stored products of
\* price * quantity_in_stock, zero for an empty Inventory; adding a product
\* whose price or quantity is zero does not change the total.
C11_TotalIsSum ==
    LET t == total_inventory_value(impl, products) IN
    /\ ~Raised(t.exc)
    /\ t.ret = RetNum(ValueOf(products, 1 .. Len(products)))
    /\ products = <<>> => t.ret = RetNum(0)
    /\ lastOp.name = "total_inventory_value" => ret = t.ret /\ ~Raised(result)
    /\ \A np \in NewProducts(impl) :
          (~HasKey(products, np._product_id)
             /\ (np._price = 0 \/ np._quantity_in_stock = 0))
          => total_inventory_value(impl, add_product(impl, products, np).products).ret
                = t.ret

\* C11 witness: a positive total was returned for an Inventory that holds a
\* free product in stock next to a priced one.
C11_TotalWithFreeProduct ==
    /\ lastOp.name = "total_inventory_value"
    /\ ret.kind = "number" /\ ret.num > 0
    /\ Len(products) = 2
    /\ \E e \in Entries(products) : e.obj._price = 0 /\ e.obj._quantity_in_stock > 0

\* C12: remove_product(product_id) never raises; with the id present it
\* removes exactly that entry and leaves every other entry unchanged, with the
\* id absent the collection is unchanged.
C12_RemoveProduct ==
    /\ lastOp.name = "remove_product"
          => ~Raised(result) /\ Keys(products) = lastOp.had \ {lastOp.pid}
    /\ \A id \in CallIds :
          LET r == remove_product(impl, products, id) IN
          /\ ~Raised(r.exc)
          /\ IF HasKey(products, id)
             THEN /\ Len(r.products) = Len(products) - 1
                  /\ Keys(r.products) = Keys(products) \ {id}
                  /\ \A k \in Keys(products) \ {id} :
                        Get(r.products, k) = Get(products, k)
             ELSE r.products = products

\* C12 witness: a removal of an id that is not stored returned normally from
\* an Inventory that holds a product.
C12_RemovedAbsentId ==
    /\ lastOp.name = "remove_product"
    /\ lastOp.pid \notin lastOp.had
    /\ ~Raised(result)
    /\ products # <<>>

\* the variant a tag names: by its name, in any case, or as the class itself
TagMatches(tag, p) == lower(tag.text) = lower(ClassName(p.cls))
MatchesTag(e, tag) == TagMatches(tag, e.obj)

\* C13: in both implementations search_by_type(tag) returns exactly the stored
\* products whose variant matches tag, and for a tag that is not one of the
\* known variants it returns an empty result without raising an error.
C13_SearchByType ==
    lastOp.name = "search_by_type" =>
        /\ ~Raised(result)
        /\ ret = RetList(Values(SelectSeq(products, LAMBDA e : MatchesTag(e, lastOp.arg))))

\* a product but for its stock
Unstocked(p) == [p EXCEPT !._quantity_in_stock = 0]

TellsOfSome(v) ==
    IF v.kind = "number" THEN v.num # 0
    ELSE IF v.kind = "list" THEN v.list # <<>>
    ELSE FALSE

\* C15: remove_expired_products returns the count or the list of the
\* product_ids it removed; the returned value is empty or zero exactly when
\* nothing was removed.
C15_ReportsRemoved ==
    lastOp.name = "remove_expired_products" =>
        LET removed == lastOp.had \ Keys(products) IN
        /\ TellsOfSome(ret) <=> removed # {}
        /\ ret.kind = "number" => ret.num = Cardinality(removed)
        /\ ret.kind = "list" =>
              /\ Len(ret.list) = Cardinality(removed)
              /\ {ret.list[i] : i \in 1 .. Len(ret.list)} = removed

\* two characters that are the same letter, in whatever case
SameLetter(a, b) ==
    \/ a = b
    \/ \E i \in 1 .. Len(UpperCase) : {a, b} = {UpperCase[i], LowerCase[i]}
\* t occurs in name at some offset, letter by letter and ignoring case
OccursIn(t, name) ==
    \E off \in 0 .. (Len(name) - Len(t)) :
        \A j \in 1 .. Len(t) : SameLetter(t[j], name[off + j])
\* l lists the objects at the positions S of P, in the order of the positions
ListsInOrder(l, P, S) ==
    /\ Len(l) = Cardinality(S)
    /\ \A n \in 1 .. Len(l) :
          \E i \in S : l[n] = P[i].obj /\ Cardinality({k \in S : k < i}) = n - 1

\* C16: search_by_name(s) returns exactly the stored products whose name
\* contains s as a substring when both are compared case-insensitively, in
\* insertion order; no match gives an empty result and no error, and the call
\* does not change the Inventory.
C16_SearchByName ==
    /\ lastOp.name = "search_by_name"
          => ~Raised(result) /\ ret = search_by_name(impl, products, lastOp.arg).ret
    /\ \A s \in NameQueries :
          LET r == search_by_name(impl, products, s) IN
          /\ ~Raised(r.exc)
          /\ r.products = products
          /\ r.ret.kind = "list"
          /\ ListsInOrder(r.ret.list, products,
                          {i \in 1 .. Len(products) : OccursIn(s.text, products[i].obj._name)})

\* C16 witness: a search for "I" returned the two stored products whose names
\* hold a lowercase i, the one inserted first, under the id "p2", first.
C16_FoundTwoInOrder ==
    /\ lastOp.name = "search_by_name"
    /\ lastOp.arg = Str(<<"I">>)
    /\ Len(ret.list) = 2
    /\ ret.list[1]._product_id = "p2"
    /\ ret.list[1]._name # ret.list[2]._name
    /\ Len(products) = 2

\* C17: in every reachable state, those produced by load_from_file from any
\* source it accepts included, each entry of the mapping is stored under a key
\* equal to the product_id of the product it maps to.
C17_KeyIsProductId ==
    \A i \in 1 .. Len(products) : products[i].key = products[i].obj._product_id

\* C18: save_to_file, successful or failed, leaves the stored products and
\* every field of every product as they were before the call; a Grocery
\* product's expiry_date stays the date value, not its serialized string.
C18_SaveReadOnly ==
    [][/\ lastOp'.name = "save_to_file" =>
            /\ products' = products
            /\ \A e \in Entries(products') :
                  e.obj.cls = "Grocery" =>
                      /\ DOMAIN e.obj = DOMAIN Get(products, e.key)
                      /\ e.obj.expiry_date = Get(products, e.key).expiry_date
       /\ \A writable \in BOOLEAN :
            LET r == save_to_file(impl, products, file, writable) IN
            /\ r.products = products
            /\ Raised(r.exc) <=> ~writable]_vars

\* C18 witness: B has saved an Inventory holding a Grocery product; the file
\* has the date as a string, the product still has the date value.
C18_SavedGrocery ==
    /\ impl = "B"
    /\ lastOp.name = "save_to_file"
    /\ ~Raised(result)
    /\ file.kind = "array"
    /\ \E i \in 1 .. Len(products) :
          /\ products[i].obj.cls = "Grocery"
          /\ i <= Len(file.data)
          /\ Has(file.data[i], "expiry_date")
          /\ file.data[i].expiry_date = strftime(products[i].obj.expiry_date)
          /\ strptime(file.data[i].expiry_date).value = products[i].obj.expiry_date

\* add_product of np right after the call that gave r removed the id: it
\* succeeds and the stored record is np
ReAdds(r, np) ==
    LET a == add_product(impl, r.products, np) IN
    /\ ~Raised(a.exc)
    /\ HasKey(a.products, np._product_id)
    /\ Get(a.products, np._product_id) = np
    /\ Len(a.products) = Len(r.products) + 1

\* C19: add_product(p) succeeds if and only if p's product_id is absent at the
\* call, whatever happened before: after remove_product or
\* remove_expired_products removed an id, add_product with that id succeeds
\* and stores the new record, with nothing of the removed one.
C19_AddAfterRemoval ==
    [][/\ lastOp'.name = "add_product" =>
            /\ Raised(result') <=> lastOp'.pid \in Keys(products)
            /\ ~Raised(result') =>
                  /\ HasKey(products', lastOp'.pid)
                  /\ \E np \in NewProducts(impl) :
                        /\ np._quantity_in_stock = lastOp'.qty
                        /\ Get(products', lastOp'.pid) = np
       /\ \A np \in NewProducts(impl) :
            /\ HasKey(products, np._product_id)
                  => ReAdds(remove_product(impl, products, np._product_id), np)
            /\ \A now \in Nows :
                  LET r == remove_expired_products(impl, products, now) IN
                  np._product_id \in Keys(products) \ Keys(r.products) => ReAdds(r, np)]_vars

\* C19 witness: remove_expired_products has just removed an id, and
\* add_product stores a product of another variant under that id.
C19_ReAddable ==
    /\ lastOp.name = "remove_expired_products"
    /\ \E id \in lastOp.had \ Keys(products) :
          \E np \in NewProducts(impl) :
              /\ np._product_id = id
              /\ np.cls # "Grocery"
              /\ np._quantity_in_stock > 0
              /\ ReAdds([products |-> products], np)

====
